---- MODULE Spec2Model ----
(***************************************************************************)
(* A model of box: the box renderer (createBox), the nesting sequencer     *)
(* (createNestedBoxes) and the color theme engine (getNextColor).           *)
(*                                                                         *)
(* A Go string is modelled as the sequence of its code points (runes), a   *)
(* *color.Color as the sequence of its SGR attributes (Nil for a nil       *)
(* pointer), a map[int]bool that only ever stores true as the set of its   *)
(* keys.                                                                   *)
(***************************************************************************)
EXTENDS Integers, Sequences, FiniteSets, TLC

VARIABLES
    pc,          \* position of the running procedure
    colorTheme,  \* the *ColorTheme of the invocation (Nil when no mode is set)
    calls,       \* number of getNextColor calls completed on colorTheme
    last,        \* value returned by the latest getNextColor call (-1: none yet)
    seen,        \* all values getNextColor has returned on colorTheme
    firstRepeat, \* number of the first call that returned a value seen before (0: none)
    fellBack,    \* whether a call took the "all colors somehow used" fallback
    args,        \* the arguments of the running createNestedBoxes / createBox
    lines,       \* the local variable `lines` of createNestedBoxes
    i,           \* the loop variable of createNestedBoxes
    layers,      \* per createBox call made so far: what it was given and returned
    cli,         \* the invocation RunE runs on: flags, arguments, stdin (Nil: no CLI run)
    stdout,      \* the lines RunE has written to standard output
    err          \* the error RunE has met (NoError: none)

vars ==
    <<pc, colorTheme, calls, last, seen, firstRepeat, fellBack, args, lines, i, layers,
      cli, stdout, err>>

engineVars == <<colorTheme, calls, last, seen, firstRepeat, fellBack>>

nestVars == <<args, lines, i, layers>>

cliVars == <<cli, stdout, err>>

Nil == <<>>

\* A nil error.
NoError == ""

(***************************************************************************)
(* Bounds of the model.                                                    *)
(***************************************************************************)
MaxCalls == 218

MaxDepth == 3

MaxPad == 1

MaxLines == 2

MaxRunes == 3

(***************************************************************************)
(* Code points.                                                            *)
(***************************************************************************)
ESC == 27

Space == 32

IsLetter(r) == (r >= 97 /\ r <= 122) \/ (r >= 65 /\ r <= 90)

\* strconv.Itoa
RECURSIVE Digits(_)
Digits(n) ==
    IF n < 0 THEN <<45>> \o Digits(0 - n)
    ELSE IF n < 10 THEN <<48 + n>>
    ELSE Digits(n \div 10) \o <<48 + (n % 10)>>

Min(S) == CHOOSE x \in S : \A y \in S : x <= y

\* Max, computed as a minimum (TLC finds the least member of a set first).
Highest(S) == 0 - Min({0 - x : x \in S})

(***************************************************************************)
(* The color theme engine.                                                 *)
(***************************************************************************)
NumColors == 216

ThemeNames == {"random", "gradient", "rainbow", "pride", "trans", "bi", "pan", "nb", "other"}

FlagNames == {"pride", "trans", "bi", "pan", "nb"}

candidateColors(name) ==
    CASE name = "pride" -> <<196, 208, 226, 46, 21, 129>>
      [] name = "trans" -> <<51, 213, 15>>
      [] name = "bi"    -> <<213, 129, 21>>
      [] name = "pan"   -> <<213, 226, 21>>
      [] name = "nb"    -> <<226, 15, 129, 0>>
      [] OTHER          -> <<>>

newColorTheme(name, start) ==
    [name |-> name, startColor |-> start, usedColors |-> {}, colorIndex |-> 0]

\* Mutant: the tracking set is never cleared.
randomReset_Never(theme) == theme

\* The random case up to its loop: the tracking set is cleared once it is full.
randomReset(theme) ==
    IF Cardinality(theme.usedColors) >= NumColors
    THEN [theme EXCEPT !.usedColors = {}]
    ELSE theme

\* Mutant: the draw is returned without looking it up in usedColors.
randomDraw_NoCheck(theme, color) ==
    [theme |-> [theme EXCEPT !.usedColors = @ \cup {color}], color |-> color, done |-> TRUE]

\* One pass of the random case's loop with rand.Intn(216) = color:
\* done says whether the loop returned color.
randomDraw(theme, color) ==
    IF color \notin theme.usedColors
    THEN [theme |-> [theme EXCEPT !.usedColors = @ \cup {color}], color |-> color, done |-> TRUE]
    ELSE [theme |-> theme, color |-> color, done |-> FALSE]

\* Mutant: the search for an unused color starts one past the cursor (i := 1).
flagNext_SearchFromOne(theme, cand) ==
    LET n    == Len(cand)
        t1   == IF Cardinality(theme.usedColors) >= n
                THEN [theme EXCEPT !.usedColors = {}]
                ELSE theme
        free == {k \in 1 .. n - 1 : cand[((t1.colorIndex + k) % n) + 1] \notin t1.usedColors}
    IN  IF free # {}
        THEN LET colorIndex == (t1.colorIndex + Min(free)) % n
                 color      == cand[colorIndex + 1]
             IN  [theme |-> [t1 EXCEPT !.usedColors = @ \cup {color},
                                        !.colorIndex = (colorIndex + 1) % n],
                  color |-> color, fallback |-> FALSE]
        ELSE [theme |-> [t1 EXCEPT !.usedColors = {cand[1]}, !.colorIndex = 1],
              color |-> cand[1], fallback |-> TRUE]

\* Mutant: the cursor stays on the entry just returned instead of moving past it.
flagNext_CursorStays(theme, cand) ==
    LET n    == Len(cand)
        t1   == IF Cardinality(theme.usedColors) >= n
                THEN [theme EXCEPT !.usedColors = {}]
                ELSE theme
        free == {k \in 0 .. n - 1 : cand[((t1.colorIndex + k) % n) + 1] \notin t1.usedColors}
    IN  IF free # {}
        THEN LET colorIndex == (t1.colorIndex + Min(free)) % n
                 color      == cand[colorIndex + 1]
             IN  [theme |-> [t1 EXCEPT !.usedColors = @ \cup {color},
                                        !.colorIndex = colorIndex],
                  color |-> color, fallback |-> FALSE]
        ELSE [theme |-> [t1 EXCEPT !.usedColors = {cand[1]}, !.colorIndex = 1],
              color |-> cand[1], fallback |-> TRUE]

\* Mutant: the tracking set is cleared only past the palette's size (> for >=).
flagNext_ResetLate(theme, cand) ==
    LET n    == Len(cand)
        t1   == IF Cardinality(theme.usedColors) > n
                THEN [theme EXCEPT !.usedColors = {}]
                ELSE theme
        free == {k \in 0 .. n - 1 : cand[((t1.colorIndex + k) % n) + 1] \notin t1.usedColors}
    IN  IF free # {}
        THEN LET colorIndex == (t1.colorIndex + Min(free)) % n
                 color      == cand[colorIndex + 1]
             IN  [theme |-> [t1 EXCEPT !.usedColors = @ \cup {color},
                                        !.colorIndex = (colorIndex + 1) % n],
                  color |-> color, fallback |-> FALSE]
        ELSE [theme |-> [t1 EXCEPT !.usedColors = {cand[1]}, !.colorIndex = 1],
              color |-> cand[1], fallback |-> TRUE]

\* The flag themes: cycle through candidateColors without repetition.
flagNext(theme, cand) ==
    LET n    == Len(cand)
        t1   == IF Cardinality(theme.usedColors) >= n
                THEN [theme EXCEPT !.usedColors = {}]
                ELSE theme
        free == {k \in 0 .. n - 1 : cand[((t1.colorIndex + k) % n) + 1] \notin t1.usedColors}
    IN  IF free # {}
        THEN LET colorIndex == (t1.colorIndex + Min(free)) % n
                 color      == cand[colorIndex + 1]
             IN  [theme |-> [t1 EXCEPT !.usedColors = @ \cup {color},
                                        !.colorIndex = (colorIndex + 1) % n],
                  color |-> color, fallback |-> FALSE]
        ELSE [theme |-> [t1 EXCEPT !.usedColors = {cand[1]}, !.colorIndex = 1],
              color |-> cand[1], fallback |-> TRUE]

\* Mutant: gradient and rainbow without the reduction modulo 216.
getNextColor_NoModulo(theme, index) ==
    CASE theme.name = "gradient" ->
            [theme |-> [theme EXCEPT !.colorIndex = @ + 1],
             color |-> theme.startColor + theme.colorIndex, fallback |-> FALSE]
      [] theme.name = "rainbow" ->
            [theme |-> [theme EXCEPT !.colorIndex = @ + 1],
             color |-> theme.colorIndex, fallback |-> FALSE]
      [] theme.name \in FlagNames /\ Len(candidateColors(theme.name)) > 0 ->
            flagNext(theme, candidateColors(theme.name))
      [] OTHER ->
            [theme |-> theme, color |-> theme.startColor, fallback |-> FALSE]

\* Mutant: rainbow starts from startColor, as gradient does.
getNextColor_RainbowOffset(theme, index) ==
    CASE theme.name \in {"gradient", "rainbow"} ->
            [theme |-> [theme EXCEPT !.colorIndex = @ + 1],
             color |-> (theme.startColor + theme.colorIndex) % NumColors, fallback |-> FALSE]
      [] theme.name \in FlagNames /\ Len(candidateColors(theme.name)) > 0 ->
            flagNext(theme, candidateColors(theme.name))
      [] OTHER ->
            [theme |-> theme, color |-> theme.startColor, fallback |-> FALSE]

\* getNextColor for every theme but random (whose loop draws at random).
getNextColor(theme, index) ==
    CASE theme.name = "gradient" ->
            [theme |-> [theme EXCEPT !.colorIndex = @ + 1],
             color |-> (theme.startColor + theme.colorIndex) % NumColors, fallback |-> FALSE]
      [] theme.name = "rainbow" ->
            [theme |-> [theme EXCEPT !.colorIndex = @ + 1],
             color |-> theme.colorIndex % NumColors, fallback |-> FALSE]
      [] theme.name \in FlagNames /\ Len(candidateColors(theme.name)) > 0 ->
            flagNext(theme, candidateColors(theme.name))
      [] OTHER ->
            [theme |-> theme, color |-> theme.startColor, fallback |-> FALSE]

\* The palettes of the stateless revision (its trans palette has five entries).
indexedColors(name) ==
    CASE name = "pride" -> <<196, 208, 226, 46, 21, 129>>
      [] name = "trans" -> <<51, 213, 15, 213, 51>>
      [] name = "bi"    -> <<213, 129, 21>>
      [] name = "pan"   -> <<213, 226, 21>>
      [] name = "nb"    -> <<226, 15, 129, 0>>
      [] OTHER          -> <<>>

\* getNextColor of the stateless revision, for every theme but random (which
\* returns rand.Intn(216)): the color is a function of the theme's name, its
\* startColor and the index alone.
getNextColorByIndex(theme, index) ==
    CASE theme.name = "gradient" -> (theme.startColor + index) % NumColors
      [] theme.name = "rainbow" -> index % NumColors
      [] theme.name \in FlagNames ->
            indexedColors(theme.name)[(index % Len(indexedColors(theme.name))) + 1]
      [] OTHER -> theme.startColor

\* The outcomes of rand.Intn(216) the model follows inside the random loop:
\* the lowest and the highest index still unused, and the lowest and highest
\* index already used (a collision, which makes the loop draw again).
randIntn(used) ==
    LET all == 0 .. NumColors - 1
    IN  (IF used = all THEN {} ELSE {Min(all \ used), Highest(all \ used)})
        \cup (IF used = {} THEN {} ELSE {Min(used), Highest(used)})

\* The outcomes of rand.Intn(216) in newColorTheme the model follows: all of them
\* for the themes that read startColor, one or both extremes for the others.
startColors(name) ==
    CASE name \in {"gradient", "other"} -> 0 .. NumColors - 1
      [] name = "random" -> {0}
      [] OTHER -> {0, NumColors - 1}

\* Bookkeeping of a completed getNextColor call that returned color.
Returned(color, fallback) ==
    /\ calls' = calls + 1
    /\ last' = color
    /\ seen' = seen \cup {color}
    /\ firstRepeat' = IF firstRepeat = 0 /\ color \in seen THEN calls + 1 ELSE firstRepeat
    /\ fellBack' = (fellBack \/ fallback)

(***************************************************************************)
(* Colors: parseColor, and the escape sequences color.Color.Sprint emits.  *)
(***************************************************************************)
\* strings.ToLower on the ASCII range.
toLower(str) == [k \in 1 .. Len(str) |-> IF str[k] >= 65 /\ str[k] <= 90 THEN str[k] + 32 ELSE str[k]]

\* The names parseColor knows, each with the SGR attribute of its color.
colorNames == <<
    [name |-> <<98, 108, 97, 99, 107>>, attr |-> 30],  \* black
    [name |-> <<114, 101, 100>>, attr |-> 31],  \* red
    [name |-> <<103, 114, 101, 101, 110>>, attr |-> 32],  \* green
    [name |-> <<121, 101, 108, 108, 111, 119>>, attr |-> 33],  \* yellow
    [name |-> <<98, 108, 117, 101>>, attr |-> 34],  \* blue
    [name |-> <<109, 97, 103, 101, 110, 116, 97>>, attr |-> 35],  \* magenta
    [name |-> <<99, 121, 97, 110>>, attr |-> 36],  \* cyan
    [name |-> <<119, 104, 105, 116, 101>>, attr |-> 37],  \* white
    [name |-> <<103, 114, 97, 121>>, attr |-> 90],  \* gray
    [name |-> <<98, 114, 105, 103, 104, 116, 95, 98, 108, 97, 99, 107>>, attr |-> 90],  \* bright_black
    [name |-> <<98, 114, 105, 103, 104, 116, 95, 114, 101, 100>>, attr |-> 91],  \* bright_red
    [name |-> <<98, 114, 105, 103, 104, 116, 95, 103, 114, 101, 101, 110>>, attr |-> 92],  \* bright_green
    [name |-> <<98, 114, 105, 103, 104, 116, 95, 121, 101, 108, 108, 111, 119>>, attr |-> 93],  \* bright_yellow
    [name |-> <<98, 114, 105, 103, 104, 116, 95, 98, 108, 117, 101>>, attr |-> 94],  \* bright_blue
    [name |-> <<98, 114, 105, 103, 104, 116, 95, 109, 97, 103, 101, 110, 116, 97>>, attr |-> 95],  \* bright_magenta
    [name |-> <<98, 114, 105, 103, 104, 116, 95, 99, 121, 97, 110>>, attr |-> 96],  \* bright_cyan
    [name |-> <<98, 114, 105, 103, 104, 116, 95, 119, 104, 105, 116, 101>>, attr |-> 97]   \* bright_white
>>

\* strconv.Atoi: an optional sign and at least one decimal digit, nothing else.
RECURSIVE digitsValue(_, _)
digitsValue(str, acc) ==
    IF str = <<>> THEN acc ELSE digitsValue(Tail(str), 10 * acc + (Head(str) - 48))

atoi(str) ==
    LET signed == str # <<>> /\ Head(str) \in {43, 45}
        body   == IF signed THEN Tail(str) ELSE str
        ok     == body # <<>> /\ \A k \in 1 .. Len(body) : body[k] >= 48 /\ body[k] <= 57
    IN  [ok  |-> ok,
         num |-> IF ~ok THEN 0
                 ELSE IF signed /\ Head(str) = 45 THEN 0 - digitsValue(body, 0)
                 ELSE digitsValue(body, 0)]

\* parseColor: a color.Color as the sequence of its SGR attributes.
parseColor(name) ==
    LET lower == toLower(name)
        known == {k \in 1 .. Len(colorNames) : colorNames[k].name = lower}
    IN  IF known # {} THEN <<colorNames[Min(known)].attr>>
        ELSE IF atoi(name).ok THEN <<90 + atoi(name).num>>
        ELSE <<0>>

\* getColorFromTheme builds ESC[38;5;<n>m from the code getNextColor returned.
colorOfCode(colorCode) == <<38, 5, colorCode>>

RECURSIVE joinAttrs(_)
joinAttrs(attrs) ==
    IF Len(attrs) = 1 THEN Digits(attrs[1])
    ELSE Digits(attrs[1]) \o <<59>> \o joinAttrs(Tail(attrs))

\* c.Sprint(str): ESC [ attributes m, the text, ESC [ 0 m.
Sprint(c, str) == <<ESC, 91>> \o joinAttrs(c) \o <<109>> \o str \o <<ESC, 91, 48, 109>>

(***************************************************************************)
(* The renderer.                                                           *)
(***************************************************************************)
themeUnicode == [WE |-> 9473, NS |-> 9475, NW |-> 9487, NE |-> 9491, SW |-> 9495, SE |-> 9499]

themeAscii == [WE |-> 45, NS |-> 124, NW |-> 43, NE |-> 43, SW |-> 43, SE |-> 43]

themePlain == [WE |-> 32, NS |-> 32, NW |-> 32, NE |-> 32, SW |-> 32, SE |-> 32]

getTheme(name) ==
    CASE name = "unicode" -> themeUnicode
      [] name = "ascii"   -> themeAscii
      [] name = "plain"   -> themePlain
      [] OTHER            -> themeUnicode

repeatChar(char, n) == [k \in 1 .. n |-> char]

\* One turn of stripAnsi's loop on rune r: what it writes to result and the
\* value of inEscape it leaves.
stripRune(r, inEscape) ==
    IF r = ESC THEN [result |-> <<>>, inEscape |-> TRUE]
    ELSE IF inEscape THEN [result |-> <<>>, inEscape |-> ~IsLetter(r)]
    ELSE [result |-> <<r>>, inEscape |-> FALSE]

\* The loop over the runes lo..hi of str, entered with the given inEscape.
\* The range is run as its first half followed by its second half, the
\* second entered with the inEscape the first leaves.
RECURSIVE stripFrom(_, _, _, _)
stripFrom(str, lo, hi, inEscape) ==
    IF lo > hi THEN [result |-> <<>>, inEscape |-> inEscape]
    ELSE IF lo = hi THEN stripRune(str[lo], inEscape)
    ELSE LET mid    == (lo + hi) \div 2
             first  == stripFrom(str, lo, mid, inEscape)
             second == stripFrom(str, mid + 1, hi, first.inEscape)
         IN  [result |-> first.result \o second.result, inEscape |-> second.inEscape]

stripAnsi(str) == stripFrom(str, 1, Len(str), FALSE).result

\* utf8.RuneCountInString(stripAnsi(str))
width(str) == Len(stripAnsi(str))

RECURSIVE maxLineWidth(_)
maxLineWidth(ls) ==
    IF ls = <<>> THEN 0
    ELSE LET l == width(ls[Len(ls)])
             m == maxLineWidth(SubSeq(ls, 1, Len(ls) - 1))
         IN  IF l > m THEN l ELSE m

\* Mutant: the title does not widen the box.
innerWidth_IgnoreTitle(ls, boxTitle, hpadding) == maxLineWidth(ls) + 2 * hpadding

\* maxWidth of createBox: the inner width of the box.
innerWidth(ls, boxTitle, hpadding) ==
    LET maxWidth == maxLineWidth(ls) + 2 * hpadding
    IN  IF boxTitle # <<>> /\ width(boxTitle) > maxWidth THEN width(boxTitle) ELSE maxWidth

\* The closure border of createBox.
border(boxColor, str) == IF boxColor # Nil THEN Sprint(boxColor, str) ELSE str

\* Mutant: the fill after the title is as long as the fill of a row without title.
titleFill_FullWidth(boxTitle, maxWidth) == maxWidth

\* rest: the number of WE glyphs after the title.
titleFill(boxTitle, maxWidth) == maxWidth - width(boxTitle)

\* The number of spaces after the right padding of a content row.
contentFill(line, maxWidth, hpadding) ==
    LET totalPadding == maxWidth - width(line)
    IN  totalPadding - 2 * hpadding

\* The counts createBox passes to strings.Repeat, in the order it computes them.
repeatCounts(ls, boxTitle, vpadding, hpadding) ==
    LET maxWidth == innerWidth(ls, boxTitle, hpadding)
    IN  <<IF boxTitle # <<>> THEN titleFill(boxTitle, maxWidth) ELSE maxWidth>>
        \o [k \in 1 .. vpadding |-> maxWidth]
        \o [k \in 1 .. 3 * Len(ls) |->
                IF k % 3 = 0 THEN contentFill(ls[k \div 3], maxWidth, hpadding) ELSE hpadding]
        \o [k \in 1 .. vpadding |-> maxWidth]
        \o <<maxWidth>>

\* strings.Repeat panics on a negative count.
createBoxPanics(ls, boxTitle, vpadding, hpadding) ==
    LET counts == repeatCounts(ls, boxTitle, vpadding, hpadding)
    IN  \E k \in 1 .. Len(counts) : counts[k] < 0

topRow(boxColor, boxTitle, titleColor, theme, maxWidth) ==
    border(boxColor, <<theme.NW>>)
    \o (IF boxTitle # <<>>
        THEN (IF titleColor # Nil THEN Sprint(titleColor, boxTitle) ELSE boxTitle)
             \o border(boxColor, repeatChar(theme.WE, titleFill(boxTitle, maxWidth)))
        ELSE border(boxColor, repeatChar(theme.WE, maxWidth)))
    \o border(boxColor, <<theme.NE>>)

padRow(boxColor, theme, maxWidth) ==
    border(boxColor, <<theme.NS>>) \o repeatChar(Space, maxWidth) \o border(boxColor, <<theme.NS>>)

\* Mutant: the fill spaces after the right padding are left out.
contentRow_NoFill(line, boxColor, contentColor, theme, maxWidth, hpadding) ==
    LET content == IF contentColor # Nil THEN Sprint(contentColor, line) ELSE line
    IN  border(boxColor, <<theme.NS>>) \o repeatChar(Space, hpadding) \o content
        \o repeatChar(Space, hpadding) \o border(boxColor, <<theme.NS>>)

\* Mutant: the row carries the line with its escape sequences stripped.
contentRow_Stripped(line, boxColor, contentColor, theme, maxWidth, hpadding) ==
    LET content == IF contentColor # Nil THEN Sprint(contentColor, stripAnsi(line))
                   ELSE stripAnsi(line)
    IN  border(boxColor, <<theme.NS>>) \o repeatChar(Space, hpadding) \o content
        \o repeatChar(Space, hpadding)
        \o repeatChar(Space, contentFill(line, maxWidth, hpadding))
        \o border(boxColor, <<theme.NS>>)

contentRow(line, boxColor, contentColor, theme, maxWidth, hpadding) ==
    LET content == IF contentColor # Nil THEN Sprint(contentColor, line) ELSE line
    IN  border(boxColor, <<theme.NS>>) \o repeatChar(Space, hpadding) \o content
        \o repeatChar(Space, hpadding)
        \o repeatChar(Space, contentFill(line, maxWidth, hpadding))
        \o border(boxColor, <<theme.NS>>)

\* Mutant: the bottom row is drawn with the corners of the top row.
bottomRow_TopCorners(boxColor, theme, maxWidth) ==
    border(boxColor, <<theme.NW>>) \o border(boxColor, repeatChar(theme.WE, maxWidth))
    \o border(boxColor, <<theme.NE>>)

bottomRow(boxColor, theme, maxWidth) ==
    border(boxColor, <<theme.SW>>) \o border(boxColor, repeatChar(theme.WE, maxWidth))
    \o border(boxColor, <<theme.SE>>)

\* Mutant: the vertical padding below the content is left out.
createBox_NoBottomPad(ls, boxColor, contentColor, boxTitle, titleColor, theme, vpadding, hpadding) ==
    LET maxWidth == innerWidth(ls, boxTitle, hpadding)
    IN  <<topRow(boxColor, boxTitle, titleColor, theme, maxWidth)>>
        \o [k \in 1 .. vpadding |-> padRow(boxColor, theme, maxWidth)]
        \o [k \in 1 .. Len(ls) |->
                contentRow(ls[k], boxColor, contentColor, theme, maxWidth, hpadding)]
        \o <<bottomRow(boxColor, theme, maxWidth)>>

createBox(ls, boxColor, contentColor, boxTitle, titleColor, theme, vpadding, hpadding) ==
    LET maxWidth == innerWidth(ls, boxTitle, hpadding)
    IN  <<topRow(boxColor, boxTitle, titleColor, theme, maxWidth)>>
        \o [k \in 1 .. vpadding |-> padRow(boxColor, theme, maxWidth)]
        \o [k \in 1 .. Len(ls) |->
                contentRow(ls[k], boxColor, contentColor, theme, maxWidth, hpadding)]
        \o [k \in 1 .. vpadding |-> padRow(boxColor, theme, maxWidth)]
        \o <<bottomRow(boxColor, theme, maxWidth)>>

(***************************************************************************)
(* The nesting sequencer.                                                  *)
(***************************************************************************)
\* Mutant: the loop runs once more (i <= depth).
loopCond_Inclusive(idx, depth) == idx <= depth

\* The loop condition of createNestedBoxes.
loopCond(idx, depth) == idx < depth

\* Mutant: no fallback to the first element once the list is exhausted.
layerBoxColor_NoFallback(boxColors, idx) ==
    IF idx < Len(boxColors) THEN parseColor(boxColors[idx + 1]) ELSE Nil

\* The border color of layer idx when no color theme is active.
layerBoxColor(boxColors, idx) ==
    IF Len(boxColors) > 0
    THEN (IF idx < Len(boxColors) THEN parseColor(boxColors[idx + 1]) ELSE parseColor(boxColors[1]))
    ELSE Nil

\* Mutant: an explicit border color, where the list has one, wins over the theme.
layerBorder_ListFirst(theme, colorCode, boxColors, idx) ==
    IF idx < Len(boxColors) THEN parseColor(boxColors[idx + 1])
    ELSE IF theme # Nil THEN colorOfCode(colorCode)
    ELSE layerBoxColor(boxColors, idx)

\* boxColor of layer idx: from the color theme when there is one (colorCode is
\* what getNextColor returned), else from the list.
layerBorder(theme, colorCode, boxColors, idx) ==
    IF theme # Nil THEN colorOfCode(colorCode) ELSE layerBoxColor(boxColors, idx)

layerTitleColor(titleColors, idx) ==
    IF Len(titleColors) > 0
    THEN (IF idx < Len(titleColors) THEN parseColor(titleColors[idx + 1])
          ELSE parseColor(titleColors[1]))
    ELSE Nil

layerTitle(boxTitles, idx) ==
    IF Len(boxTitles) > 0
    THEN (IF idx < Len(boxTitles) THEN boxTitles[idx + 1] ELSE <<>>)
    ELSE <<>>

\* Only the innermost box gets the content color.
layerContentColor(contentColor, idx, depth) == IF idx = depth - 1 THEN contentColor ELSE Nil

\* What getNextColor may return to createNestedBoxes, with the theme it leaves:
\* for random, the loop has run until a draw was unused.
themeOutcomes(theme, idx) ==
    IF theme.name = "random"
    THEN LET t1 == randomReset(theme)
         IN  {[theme |-> randomDraw(t1, c).theme, color |-> c, fallback |-> FALSE] :
                 c \in {d \in randIntn(t1.usedColors) : randomDraw(t1, d).done}}
    ELSE {getNextColor(theme, idx)}

(***************************************************************************)
(* The inputs the model runs createNestedBoxes on: two families of runs.   *)
(* ListRuns vary the three attribute lists, the color theme and the        *)
(* content color over one line drawn with the ascii glyphs; RenderRuns     *)
(* vary the input lines, the glyph set and the paddings.                   *)
(***************************************************************************)
borderNameAt(k) == colorNames[2 + (k % 7)].name

titleColorNameAt(k) == colorNames[11 + (k % 7)].name

titleAt(k) == <<65 + (k % 26)>>

\* Lists of 0 to MaxDepth elements, element k (from 0) being the k-th name.
BorderLists == {[k \in 1 .. n |-> borderNameAt(k - 1)] : n \in 0 .. MaxDepth}

TitleColorLists == {[k \in 1 .. n |-> titleColorNameAt(k - 1)] : n \in 0 .. MaxDepth}

TitleLists == {[k \in 1 .. n |-> titleAt(k - 1)] : n \in 0 .. MaxDepth}

\* 0 to MaxLines lines, line k (from 1) being k letters.
NestInputs == {[k \in 1 .. n |-> repeatChar(97, k)] : n \in 0 .. MaxLines}

GlyphNames == {"unicode", "ascii", "plain"}

ContentColors == {Nil, parseColor(<<49>>)}

NestThemes ==
    {Nil, newColorTheme("rainbow", 0), newColorTheme("pride", 0),
     newColorTheme("random", 0), newColorTheme("gradient", NumColors - 1)}

\* The runes of the arbitrary strings of the model: a letter, a space, ESC.
Alphabet == {97, Space, ESC}

RECURSIVE Strings(_)
Strings(n) ==
    IF n = 0 THEN {<<>>}
    ELSE Strings(n - 1) \cup {Append(str, r) : str \in Strings(n - 1), r \in Alphabet}

Plains == {repeatChar(97, n) : n \in 0 .. MaxRunes + 1}

ListRuns ==
    {[theme |-> t,
      args  |-> [lines |-> <<repeatChar(97, 1)>>, depth |-> depth, boxColors |-> boxColors,
                 titleColors |-> titleColors, boxTitles |-> boxTitles, theme |-> "ascii",
                 vpadding |-> 0, hpadding |-> 0, contentColor |-> contentColor]] :
        t \in NestThemes, depth \in 0 .. MaxDepth, boxColors \in BorderLists,
        titleColors \in TitleColorLists, boxTitles \in TitleLists,
        contentColor \in ContentColors}

RenderRuns ==
    {[theme |-> t,
      args  |-> [lines |-> ls, depth |-> depth,
                 boxColors   |-> [k \in 1 .. n |-> borderNameAt(k - 1)],
                 titleColors |-> [k \in 1 .. n |-> titleColorNameAt(k - 1)],
                 boxTitles   |-> [k \in 1 .. n |-> titleAt(k - 1)],
                 theme |-> theme, vpadding |-> vpadding, hpadding |-> hpadding,
                 contentColor |-> contentColor]] :
        t \in {Nil, newColorTheme("rainbow", 0)}, ls \in NestInputs, depth \in 0 .. MaxDepth,
        n \in {0, MaxDepth}, theme \in GlyphNames, vpadding \in 0 .. MaxPad,
        hpadding \in 0 .. MaxPad, contentColor \in ContentColors}

(***************************************************************************)
(* Spec: one call of createNestedBoxes, one loop iteration per step.       *)
(***************************************************************************)
\* The entry of createNestedBoxes on one of the given runs.
InitNest(runs) ==
    /\ pc = "loop"
    /\ calls = 0
    /\ last = -1
    /\ seen = {}
    /\ firstRepeat = 0
    /\ fellBack = FALSE
    /\ \E run \in runs :
          /\ colorTheme = run.theme
          /\ args = run.args
          /\ lines = run.args.lines
    /\ i = 0
    /\ layers = <<>>
    /\ cli = Nil
    /\ stdout = <<>>
    /\ err = NoError

\* Depth 1 in the plain glyph set, without paddings and colors, around one
\* arbitrary string of up to MaxRunes runes, alone or beside a plain line.
PlainRuns ==
    {[theme |-> Nil,
      args  |-> [lines |-> ls, depth |-> 1, boxColors |-> <<>>, titleColors |-> <<>>,
                 boxTitles |-> boxTitles, theme |-> "plain", vpadding |-> 0,
                 hpadding |-> 0, contentColor |-> Nil]] :
        ls \in {<<str>> : str \in Strings(MaxRunes)}
               \cup {<<str, p>> : str \in Strings(MaxRunes), p \in Plains}
               \cup {<<p, str>> : str \in Strings(MaxRunes), p \in Plains},
        boxTitles \in {<<>>, <<titleAt(0)>>}}

\* The decimal literal of n, as a user writes it in --box-color.
RECURSIVE decimal(_)
decimal(n) == IF n < 10 THEN <<48 + n>> ELSE Append(decimal(n \div 10), 48 + (n % 10))

\* The integers the 256-color palette indexes.
Palette256 == 0 .. 255

\* Depth 1 around one line, the border and title color each a decimal literal.
NumberRuns ==
    {[theme |-> Nil,
      args  |-> [lines |-> <<repeatChar(97, 1)>>, depth |-> 1, boxColors |-> <<decimal(n)>>,
                 titleColors |-> IF both THEN <<decimal(n)>> ELSE <<>>,
                 boxTitles |-> <<titleAt(0)>>,
                 theme |-> "ascii", vpadding |-> 0, hpadding |-> 0, contentColor |-> Nil]] :
        n \in Palette256, both \in BOOLEAN}

Init == InitNest(ListRuns \cup RenderRuns \cup PlainRuns \cup NumberRuns)

\* One iteration of the loop: the layer's attributes, then createBox.
NestStep ==
    /\ pc = "loop"
    /\ loopCond(i, args.depth)
    /\ \E r \in (IF colorTheme # Nil THEN themeOutcomes(colorTheme, i)
                 ELSE {[theme |-> Nil, color |-> -1, fallback |-> FALSE]}) :
          LET boxColor   == layerBorder(colorTheme, r.color, args.boxColors, i)
              titleColor == layerTitleColor(args.titleColors, i)
              boxTitle   == layerTitle(args.boxTitles, i)
              thisContentColor == layerContentColor(args.contentColor, i, args.depth)
              out == createBox(lines, boxColor, thisContentColor, boxTitle, titleColor,
                               getTheme(args.theme), args.vpadding, args.hpadding)
          IN  /\ colorTheme' = r.theme
              /\ IF colorTheme # Nil
                 THEN Returned(r.color, r.fallback)
                 ELSE UNCHANGED <<calls, last, seen, firstRepeat, fellBack>>
              /\ lines' = out
              /\ layers' = Append(layers,
                    [index |-> i, call |-> IF colorTheme # Nil THEN calls + 1 ELSE 0,
                     engine |-> r.color, boxColor |-> boxColor,
                     titleColor |-> titleColor, boxTitle |-> boxTitle,
                     contentColor |-> thisContentColor, content |-> lines, top |-> out[1]])
    /\ i' = i + 1
    /\ UNCHANGED <<pc, args, cliVars>>

\* The loop ends and createNestedBoxes returns lines.
NestReturn ==
    /\ pc = "loop"
    /\ ~loopCond(i, args.depth)
    /\ pc' = "done"
    /\ UNCHANGED <<engineVars, nestVars, cliVars>>

Next == NestStep \/ NestReturn

Spec == Init /\ [][Next]_vars

(***************************************************************************)
(* Properties of the nesting sequencer, checked under Spec.                *)
(***************************************************************************)
\* The layer that drew the outermost box of `lines`: its top row is the first row.
IsOutermost(k) == layers[k].top = lines[1]

\* The layer whose box directly encloses the original input lines.
IsInnermost(k) == layers[k].content = args.lines

\* The value the n-th call of the engine returned.
EngineCall(n) == layers[CHOOSE k \in 1 .. Len(layers) : layers[k].call = n].engine

\* C1: with a color theme active and depth d >= 1, the engine's first call colors
\* the border of the outermost box of the output and its d-th call the border of
\* the innermost box, the one that encloses the input lines.
C1_EngineOrder ==
    (pc = "done" /\ colorTheme # Nil /\ args.depth >= 1) =>
        \A k \in 1 .. Len(layers) :
            /\ IsOutermost(k) => layers[k].boxColor = colorOfCode(EngineCall(1))
            /\ IsInnermost(k) => layers[k].boxColor = colorOfCode(EngineCall(args.depth))

\* C2: the content color is passed to createBox for the innermost layer only, the
\* call whose content lines are the input lines; every other call gets none.
C2_ContentColorInnermost ==
    pc = "done" =>
        \A k \in 1 .. Len(layers) :
            layers[k].contentColor = (IF IsInnermost(k) THEN args.contentColor ELSE Nil)

\* C4: for depth d > 0, createNestedBoxes returns n + 2*d*(1 + vpad) lines for an
\* input of n lines, whatever hpad, the titles, the colors and the glyph set.
C4_LineCount ==
    (pc = "done" /\ args.depth > 0) =>
        Len(lines) = Len(args.lines) + 2 * args.depth * (1 + args.vpadding)

C4_Witness ==
    /\ pc = "done"
    /\ args.depth = MaxDepth
    /\ args.vpadding = MaxPad
    /\ args.hpadding = MaxPad
    /\ Len(args.lines) = MaxLines
    /\ args.theme = "unicode"
    /\ Len(args.boxTitles) > 0

\* C5: for depth 0, createNestedBoxes returns the input lines unchanged and never
\* queries the color theme, whose state stays as constructed.
C5_DepthZeroIdentity ==
    (pc = "done" /\ args.depth = 0) =>
        /\ lines = args.lines
        /\ calls = 0
        /\ layers = <<>>
        /\ colorTheme # Nil => (colorTheme.usedColors = {} /\ colorTheme.colorIndex = 0)

C5_Witness ==
    /\ pc = "done"
    /\ args.depth = 0
    /\ colorTheme # Nil
    /\ Len(args.lines) > 0
    /\ Len(args.boxColors) > 0
    /\ args.contentColor # Nil

\* The rule of the specification: the element at idx, else the first element.
Resolve(list, idx) == IF idx < Len(list) THEN list[idx + 1] ELSE list[1]

ResolveColor(list, idx) == IF Len(list) = 0 THEN Nil ELSE parseColor(Resolve(list, idx))

\* C6 as stated: with no color theme, layer i takes border color, title color and
\* title text from list[i] when i < len(list), else from list[0] when the list is
\* not empty, else none; the title text exactly as the two colors.
C6_ResolveLists ==
    colorTheme = Nil =>
        \A k \in 1 .. Len(layers) :
            LET idx == layers[k].index
            IN  /\ layers[k].boxColor = ResolveColor(args.boxColors, idx)
                /\ layers[k].titleColor = ResolveColor(args.titleColors, idx)
                /\ layers[k].boxTitle =
                       (IF Len(args.boxTitles) = 0 THEN <<>> ELSE Resolve(args.boxTitles, idx))

\* C6 amended: the two colors fall back to list[0]; the title text is list[i] when
\* i < len(list) and empty otherwise, with no fallback to list[0].
C6_ResolveListsAmended ==
    colorTheme = Nil =>
        \A k \in 1 .. Len(layers) :
            LET idx == layers[k].index
            IN  /\ idx = k - 1
                /\ layers[k].boxColor = ResolveColor(args.boxColors, idx)
                /\ layers[k].titleColor = ResolveColor(args.titleColors, idx)
                /\ layers[k].boxTitle =
                       (IF idx < Len(args.boxTitles) THEN args.boxTitles[idx + 1] ELSE <<>>)

C6_Witness ==
    /\ pc = "done"
    /\ colorTheme = Nil
    /\ args.depth = MaxDepth
    /\ Len(args.boxColors) = 2
    /\ Len(args.titleColors) = 1
    /\ Len(args.boxTitles) = 1
    /\ layers[MaxDepth].boxColor = parseColor(borderNameAt(0))
    /\ layers[MaxDepth].boxTitle = <<>>

\* C7: with lists of length depth >= 2, element 0 of each list goes to the
\* outermost box of the output and element depth-1 to the innermost box.
C7_ListOrder ==
    (pc = "done" /\ args.depth >= 2) =>
        \A k \in 1 .. Len(layers) :
            LET d == args.depth
            IN  /\ (IsOutermost(k) /\ Len(args.boxTitles) = d) =>
                        layers[k].boxTitle = args.boxTitles[1]
                /\ (IsInnermost(k) /\ Len(args.boxTitles) = d) =>
                        layers[k].boxTitle = args.boxTitles[d]
                /\ (IsOutermost(k) /\ Len(args.titleColors) = d) =>
                        layers[k].titleColor = parseColor(args.titleColors[1])
                /\ (IsInnermost(k) /\ Len(args.titleColors) = d) =>
                        layers[k].titleColor = parseColor(args.titleColors[d])
                /\ (IsOutermost(k) /\ Len(args.boxColors) = d /\ colorTheme = Nil) =>
                        layers[k].boxColor = parseColor(args.boxColors[1])
                /\ (IsInnermost(k) /\ Len(args.boxColors) = d /\ colorTheme = Nil) =>
                        layers[k].boxColor = parseColor(args.boxColors[d])

(***************************************************************************)
(* SpecTheme: one ColorTheme instance, getNextColor called again and again.*)
(***************************************************************************)
InitTheme ==
    /\ pc = "idle"
    /\ \E name \in ThemeNames : \E start \in startColors(name) :
          colorTheme = newColorTheme(name, start)
    /\ calls = 0
    /\ last = -1
    /\ seen = {}
    /\ firstRepeat = 0
    /\ fellBack = FALSE
    /\ args = Nil
    /\ lines = <<>>
    /\ i = 0
    /\ layers = <<>>
    /\ cli = Nil
    /\ stdout = <<>>
    /\ err = NoError

NextColorCall ==
    /\ pc = "idle"
    /\ calls < MaxCalls
    /\ colorTheme.name # "random"
    /\ LET r == getNextColor(colorTheme, calls)
       IN  /\ colorTheme' = r.theme
           /\ Returned(r.color, r.fallback)
    /\ UNCHANGED <<pc, nestVars, cliVars>>

RandomEnter ==
    /\ pc = "idle"
    /\ calls < MaxCalls
    /\ colorTheme.name = "random"
    /\ colorTheme' = randomReset(colorTheme)
    /\ pc' = "draw"
    /\ UNCHANGED <<calls, last, seen, firstRepeat, fellBack, nestVars, cliVars>>

RandomDraw ==
    /\ pc = "draw"
    /\ \E color \in randIntn(colorTheme.usedColors) :
          LET r == randomDraw(colorTheme, color)
          IN  \/ /\ r.done
                 /\ colorTheme' = r.theme
                 /\ Returned(r.color, FALSE)
                 /\ pc' = "idle"
                 /\ UNCHANGED <<nestVars, cliVars>>
              \/ /\ ~r.done
                 /\ UNCHANGED vars

NextTheme == NextColorCall \/ RandomEnter \/ RandomDraw

SpecTheme == InitTheme /\ [][NextTheme]_vars

(***************************************************************************)
(* SpecLive: runs of createNestedBoxes and runs of getNextColor under the  *)
(* random theme, with what their progress rests on: a createNestedBoxes    *)
(* that is running does not stay in the same iteration for ever, and a     *)
(* draw that stays possible is eventually made (a fair random source).     *)
(***************************************************************************)
LiveRuns ==
    {run \in ListRuns : run.args.boxColors = <<>> /\ run.args.titleColors = <<>>}
    \cup {run \in RenderRuns : run.args.boxTitles = <<>> /\ run.args.contentColor = Nil}

InitLive == InitNest(LiveRuns) \/ (InitTheme /\ colorTheme.name = "random")

NextLive == NestStep \/ NestReturn \/ RandomEnter \/ RandomDraw

\* A draw that ends the redraw loop.
RandomHit == RandomDraw /\ pc' = "idle"

\* createNestedBoxes does not stay for ever in iteration k.
KeepsRunning == \A k \in 0 .. MaxDepth : []<>(pc # "loop" \/ i # k)

SpecLive == InitLive /\ [][NextLive]_vars /\ WF_vars(RandomHit) /\ KeepsRunning

(***************************************************************************)
(* SpecBox: one call of createBox.  TextRuns put one arbitrary string of   *)
(* up to MaxRunes runes (a letter, a space, ESC) among the lines, alone or *)
(* beside a plain line of any width up to MaxRunes + 1; TitleRuns put such *)
(* a string in the title; StyleRuns vary the glyph set, the colors and the *)
(* paddings over plain lines.                                              *)
(***************************************************************************)
LongTitle == repeatChar(65, MaxRunes + 2)

BoxArgs(ls, boxColor, contentColor, boxTitle, titleColor, theme, vpadding, hpadding) ==
    [lines |-> ls, boxColor |-> boxColor, contentColor |-> contentColor,
     boxTitle |-> boxTitle, titleColor |-> titleColor, theme |-> theme,
     vpadding |-> vpadding, hpadding |-> hpadding]

TextRuns ==
    {BoxArgs(ls, bc, cc, t, tc, "ascii", 0, hp) :
        ls \in {<<str>> : str \in Strings(MaxRunes)}
               \cup {<<str, p>> : str \in Strings(MaxRunes), p \in Plains}
               \cup {<<p, str>> : str \in Strings(MaxRunes), p \in Plains},
        bc \in {Nil, <<31>>}, cc \in {Nil, <<91>>}, t \in {<<>>, LongTitle},
        tc \in {Nil}, hp \in 0 .. MaxPad}

TitleRuns ==
    {BoxArgs(ls, bc, Nil, t, tc, "ascii", 0, hp) :
        ls \in {<<>>} \cup {<<p>> : p \in Plains}, bc \in {Nil, <<31>>},
        t \in Strings(MaxRunes), tc \in {Nil, <<0>>}, hp \in 0 .. MaxPad}

StyleRuns ==
    {BoxArgs(ls, bc, cc, t, tc, theme, vp, hp) :
        ls \in {[k \in 1 .. n |-> repeatChar(97, k)] : n \in 0 .. MaxLines},
        bc \in {Nil, <<31>>}, cc \in {Nil, <<91>>}, t \in {<<>>, <<65>>, LongTitle},
        tc \in {Nil, <<0>>}, theme \in GlyphNames, vp \in 0 .. MaxPad, hp \in 0 .. MaxPad}

\* The two examples of the documentation: "hi" with hpad 1, and "x" under the
\* title "LongTitle".
ExampleRuns ==
    {BoxArgs(<<<<104, 105>>>>, Nil, Nil, <<>>, Nil, "ascii", 0, 1),
     BoxArgs(<<<<120>>>>, Nil, Nil, <<76, 111, 110, 103, 84, 105, 116, 108, 101>>, Nil,
             "ascii", 0, 0)}

\* Runs with a negative padding.
NegativeRuns ==
    {BoxArgs(ls, Nil, Nil, t, Nil, "ascii", vp, hp) :
        ls \in {<<>>, <<repeatChar(97, MaxRunes)>>}, t \in {<<>>, <<65>>},
        vp \in -1 .. MaxPad, hp \in -1 .. MaxPad}

InitBox ==
    /\ pc = "call"
    /\ colorTheme = Nil
    /\ calls = 0
    /\ last = -1
    /\ seen = {}
    /\ firstRepeat = 0
    /\ fellBack = FALSE
    /\ args \in TextRuns \cup TitleRuns \cup StyleRuns \cup ExampleRuns \cup NegativeRuns
    /\ lines = <<>>
    /\ i = 0
    /\ layers = <<>>
    /\ cli = Nil
    /\ stdout = <<>>
    /\ err = NoError

\* createBox runs on args and returns boxLines, or panics in strings.Repeat.
BoxCall ==
    /\ pc = "call"
    /\ IF createBoxPanics(args.lines, args.boxTitle, args.vpadding, args.hpadding)
       THEN /\ pc' = "panic"
            /\ UNCHANGED lines
       ELSE /\ pc' = "returned"
            /\ lines' = createBox(args.lines, args.boxColor, args.contentColor,
                                  args.boxTitle, args.titleColor, getTheme(args.theme),
                                  args.vpadding, args.hpadding)
    /\ UNCHANGED <<engineVars, args, i, layers, cliVars>>

NextBox == BoxCall

SpecBox == InitBox /\ [][NextBox]_vars

(***************************************************************************)
(* SpecCli: one run of the root command (RunE): resolve the text input,    *)
(* split and validate the lists, expand them, nest the boxes, print.       *)
(***************************************************************************)
Comma == 44

\* The separator processArguments splits on: a backslash followed by n.
BackslashN == <<92, 110>>

\* strings.Split(str, sep) for a non-empty sep.
RECURSIVE Split(_, _)
Split(str, sep) ==
    LET hits == {k \in 1 .. Len(str) - Len(sep) + 1 : SubSeq(str, k, k + Len(sep) - 1) = sep}
    IN  IF hits = {} THEN <<str>>
        ELSE <<SubSeq(str, 1, Min(hits) - 1)>>
                 \o Split(SubSeq(str, Min(hits) + Len(sep), Len(str)), sep)

RECURSIVE processArguments(_)
processArguments(argv) ==
    IF argv = <<>> THEN <<>>
    ELSE (IF Head(argv) = <<>> THEN <<>> ELSE Split(Head(argv), BackslashN))
             \o processArguments(Tail(argv))

\* The errors RunE can meet, by what sets them apart in the code.
ErrNoInput == "no input provided"

ErrRead == "failed to read from stdin"

ErrConfig == "must have either 1 value or depth values"

\* resolveTextInput: stat is "error" when os.Stdin.Stat fails, "pipe" when stdin
\* is not a character device, "terminal" otherwise.
resolveTextInput(c) ==
    IF c.stat = "pipe"
    THEN IF c.scanErr THEN [lines |-> <<>>, err |-> ErrRead]
         ELSE [lines |-> c.stdin, err |-> NoError]
    ELSE LET ls == processArguments(c.argv)
         IN  IF Len(ls) = 0 THEN [lines |-> <<>>, err |-> ErrNoInput]
             ELSE [lines |-> ls, err |-> NoError]

\* Step 2 of RunE: a flag's comma-separated list.
splitList(flag) == IF flag # <<>> THEN Split(flag, <<Comma>>) ELSE <<>>

\* Mutant: any list no longer than depth passes.
validate_AcceptShort(list, depth) == Len(list) <= depth

\* Step 3 of RunE: whether validate returns nil.
validate(list, depth) ==
    IF Len(list) = 0 THEN TRUE
    ELSE ~(Len(list) # 1 /\ Len(list) # depth)

\* Step 4 of RunE: make([]string, depth) panics when depth is negative.
expandPanics(list, depth) == Len(list) <= 1 /\ depth < 0

expand(list, depth) ==
    IF Len(list) = 0 THEN [k \in 1 .. depth |-> <<>>]
    ELSE IF Len(list) = 1 THEN [k \in 1 .. depth |-> list[1]]
    ELSE list

\* The value of a list flag naming the first n of the given elements.
RECURSIVE joinComma(_)
joinComma(list) ==
    IF list = <<>> THEN <<>>
    ELSE IF Len(list) = 1 THEN list[1]
    ELSE list[1] \o <<Comma>> \o joinComma(Tail(list))

TitleFlags == {joinComma([k \in 1 .. n |-> titleAt(k - 1)]) : n \in 0 .. MaxDepth + 1}

BoxColorFlags == {joinComma([k \in 1 .. n |-> borderNameAt(k - 1)]) : n \in 0 .. MaxDepth + 1}

TitleColorFlags ==
    {joinComma([k \in 1 .. n |-> titleColorNameAt(k - 1)]) : n \in 0 .. MaxDepth + 1}

\* What the run finds on stdin and on its command line.
CliInputs ==
    {[stat |-> st, scanErr |-> FALSE, stdin |-> <<>>, argv |-> argv] :
        st \in {"error", "terminal"},
        argv \in {<<>>, <<<<>>>>, <<<<97>> \o BackslashN \o <<98>>, <<>>, <<99>>>>}}
    \cup {[stat |-> "pipe", scanErr |-> FALSE, stdin |-> ls, argv |-> <<<<97>>>>] :
             ls \in {<<>>, <<<<97>>>>, <<<<97>>, <<>>, <<98, 99>>>>}}
    \cup {[stat |-> "pipe", scanErr |-> TRUE, stdin |-> <<<<97>>>>, argv |-> <<<<97>>>>]}

CliRuns ==
    {[stat |-> in.stat, scanErr |-> in.scanErr, stdin |-> in.stdin, argv |-> in.argv,
      number |-> number, title |-> title, boxColor |-> boxColor, titleColor |-> titleColor,
      centerColor |-> <<>>, vpadding |-> 0, hpadding |-> 0, themeName |-> "ascii",
      mode |-> mode] :
        in \in CliInputs, number \in -1 .. MaxDepth, title \in TitleFlags,
        boxColor \in BoxColorFlags, titleColor \in TitleColorFlags, mode \in {"", "rainbow"}}

InitCli ==
    /\ pc = "resolve"
    /\ colorTheme = Nil
    /\ calls = 0
    /\ last = -1
    /\ seen = {}
    /\ firstRepeat = 0
    /\ fellBack = FALSE
    /\ args = Nil
    /\ lines = <<>>
    /\ i = 0
    /\ layers = <<>>
    /\ cli \in CliRuns
    /\ stdout = <<>>
    /\ err = NoError

\* Step 1 of RunE: resolveTextInput; an error ends the run.
RunResolve ==
    /\ pc = "resolve"
    /\ LET r == resolveTextInput(cli)
       IN  IF r.err # NoError
           THEN /\ err' = r.err
                /\ pc' = "exit"
                /\ UNCHANGED lines
           ELSE /\ lines' = r.lines
                /\ pc' = "validate"
                /\ UNCHANGED err
    /\ UNCHANGED <<engineVars, args, i, layers, cli, stdout>>

\* Steps 2 and 3 of RunE: split the lists and validate each; the first list
\* that fails ends the run.
RunValidate ==
    /\ pc = "validate"
    /\ IF /\ validate(splitList(cli.title), cli.number)
          /\ validate(splitList(cli.boxColor), cli.number)
          /\ validate(splitList(cli.titleColor), cli.number)
       THEN /\ pc' = "expand"
            /\ UNCHANGED err
       ELSE /\ err' = ErrConfig
            /\ pc' = "exit"
    /\ UNCHANGED <<engineVars, nestVars, cli, stdout>>

\* Steps 4 to 6 of RunE up to the call of createNestedBoxes.
RunExpand ==
    /\ pc = "expand"
    /\ IF \/ expandPanics(splitList(cli.title), cli.number)
          \/ expandPanics(splitList(cli.boxColor), cli.number)
          \/ expandPanics(splitList(cli.titleColor), cli.number)
       THEN /\ pc' = "panic"
            /\ UNCHANGED <<colorTheme, args>>
       ELSE /\ pc' = "loop"
            /\ \E start \in startColors(cli.mode) :
                  colorTheme' = IF cli.mode # "" THEN newColorTheme(cli.mode, start) ELSE Nil
            /\ args' = [lines |-> lines, depth |-> cli.number,
                        boxColors |-> expand(splitList(cli.boxColor), cli.number),
                        titleColors |-> expand(splitList(cli.titleColor), cli.number),
                        boxTitles |-> expand(splitList(cli.title), cli.number),
                        theme |-> cli.themeName, vpadding |-> cli.vpadding,
                        hpadding |-> cli.hpadding,
                        contentColor |-> IF cli.centerColor # <<>>
                                         THEN parseColor(cli.centerColor) ELSE Nil]
    /\ UNCHANGED <<calls, last, seen, firstRepeat, fellBack, lines, i, layers, cliVars>>

\* The end of RunE: every line of the result goes to standard output.
RunPrint ==
    /\ pc = "done"
    /\ cli # Nil
    /\ stdout' = lines
    /\ pc' = "exit"
    /\ UNCHANGED <<engineVars, nestVars, cli, err>>

NextCli == RunResolve \/ RunValidate \/ RunExpand \/ NestStep \/ NestReturn \/ RunPrint

SpecCli == InitCli /\ [][NextCli]_vars

(***************************************************************************)
(* Properties of the renderer, checked under SpecBox.                      *)
(***************************************************************************)
\* Every ESC of str is followed, later in str, by an ASCII letter.
Terminated(str) ==
    \A e \in 1 .. Len(str) : str[e] = ESC => \E j \in e + 1 .. Len(str) : IsLetter(str[j])

BoxInnerWidth == innerWidth(args.lines, args.boxTitle, args.hpadding)

\* C3 as stated: whatever the lines and the title (ESC code points or not), the
\* glyph set, the colors and the paddings, all lines createBox returns have the
\* same stripped display width, innerWidth + 2.
C3_UniformWidth ==
    pc = "returned" => \A k \in 1 .. Len(lines) : width(lines[k]) = BoxInnerWidth + 2

\* C3 amended: the same, for lines and a title in which every ESC is followed,
\* later in the same string, by an ASCII letter (no unterminated escape sequence).
C3_UniformWidthAmended ==
    (/\ pc = "returned"
     /\ Terminated(args.boxTitle)
     /\ \A k \in 1 .. Len(args.lines) : Terminated(args.lines[k])) =>
        \A k \in 1 .. Len(lines) : width(lines[k]) = BoxInnerWidth + 2

C3_Witness ==
    /\ pc = "returned"
    /\ args.lines = <<<<ESC, Space, 97>>, repeatChar(97, 2)>>
    /\ args.boxTitle = LongTitle
    /\ args.boxColor # Nil
    /\ args.contentColor # Nil
    /\ args.hpadding = MaxPad
    /\ Len(lines) = 4
    /\ BoxInnerWidth = MaxRunes + 2

(***************************************************************************)
(* Properties of the color theme engine, checked under SpecTheme.          *)
(***************************************************************************)
\* C8 as stated: whatever the theme and the number of calls, every value
\* getNextColor returns lies in 0..215.
C8_Range == calls > 0 => last \in 0 .. NumColors - 1

\* C8 amended: every value returned lies in 0..215, except that the flag themes
\* pride, pan and nb also return their palette entry 226.
C8_RangeAmended ==
    calls > 0 =>
        \/ last \in 0 .. NumColors - 1
        \/ colorTheme.name \in {"pride", "pan", "nb"} /\ last = 226

C8_Witness == colorTheme.name = "pan" /\ calls > 3 /\ last = 226

\* C9: the first 216 calls of the random theme return 216 pairwise distinct
\* indices, all of 0..215, whatever the draws; a value is returned a second time
\* only from call 217 on, after the tracking set has been cleared.
C9_RandomPermutation ==
    colorTheme.name = "random" =>
        /\ calls <= NumColors => (firstRepeat = 0 /\ Cardinality(seen) = calls)
        /\ calls >= NumColors => seen = 0 .. NumColors - 1
        /\ firstRepeat # 0 =>
              (firstRepeat > NumColors /\ Cardinality(colorTheme.usedColors) <= calls - NumColors)

C9_Witness ==
    /\ colorTheme.name = "random"
    /\ pc = "idle"
    /\ calls = NumColors + 1
    /\ firstRepeat = NumColors + 1
    /\ Cardinality(colorTheme.usedColors) = 1

\* C10: on a fresh ColorTheme the pride theme returns 196, 208, 226, 46, 21, 129
\* in its first six calls, and its seventh call does not return 129 again.
C10_PrideFirstSix ==
    colorTheme.name = "pride" =>
        /\ calls \in 1 .. 6 => last = <<196, 208, 226, 46, 21, 129>>[calls]
        /\ calls = 7 => last # 129

C10_Witness == colorTheme.name = "pride" /\ calls = 7 /\ last = 196

\* The tracking set as the call about to be made finds it after its reset.
UsedAfterReset ==
    IF Cardinality(colorTheme.usedColors) >= Len(candidateColors(colorTheme.name))
    THEN {}
    ELSE colorTheme.usedColors

\* A step that completes one getNextColor call.
CallReturns == calls' = calls + 1

\* C11: for each flag palette and any number of calls on one ColorTheme, the
\* tracking set never holds more than the palette and is cleared only when it
\* holds all of it; each call returns the palette entry at the cursor, an entry
\* not yet returned since the last clearing, and moves the cursor one entry on;
\* a call returns the same color as the call before it at most when it is the
\* first call of a new cycle.
C11_FlagCycle ==
    /\ [](colorTheme.name \in FlagNames =>
            LET cand == candidateColors(colorTheme.name)
            IN  /\ colorTheme.usedColors \subseteq {cand[k] : k \in 1 .. Len(cand)}
                /\ IF calls = 0 THEN colorTheme.usedColors = {}
                   ELSE Cardinality(colorTheme.usedColors) = ((calls - 1) % Len(cand)) + 1)
    /\ [][(colorTheme.name \in FlagNames /\ CallReturns) =>
            LET cand == candidateColors(colorTheme.name)
            IN  /\ last' = cand[colorTheme.colorIndex + 1]
                /\ last' \notin UsedAfterReset
                /\ colorTheme'.usedColors = UsedAfterReset \cup {last'}
                /\ colorTheme'.colorIndex = (colorTheme.colorIndex + 1) % Len(cand)
                /\ (calls >= 1 /\ last' = last) => UsedAfterReset = {}]_vars

C11_Witness ==
    /\ colorTheme.name = "nb"
    /\ calls = 6
    /\ last = 15
    /\ colorTheme.usedColors = {226, 15}
    /\ colorTheme.colorIndex = 2

\* C12: call k (k = 0, 1, 2, ...) of getNextColor on one ColorTheme returns
\* (startColor + k) mod 216 for gradient and k mod 216 for rainbow; the call
\* advances the counter colorIndex by exactly 1, from k to k + 1, and no call of
\* any theme modifies startColor.
C12_CounterFamilies ==
    [][CallReturns =>
        /\ colorTheme'.startColor = colorTheme.startColor
        /\ colorTheme.name = "gradient" =>
              (/\ last' = (colorTheme.startColor + calls) % NumColors
               /\ colorTheme.colorIndex = calls
               /\ colorTheme'.colorIndex = calls + 1)
        /\ colorTheme.name = "rainbow" =>
              (/\ last' = calls % NumColors
               /\ colorTheme.colorIndex = calls
               /\ colorTheme'.colorIndex = calls + 1)]_vars

C12_Witness ==
    \/ /\ colorTheme.name = "gradient"
       /\ colorTheme.startColor = NumColors - 1
       /\ calls = NumColors + 1
       /\ last = NumColors - 1
    \/ /\ colorTheme.name = "rainbow"
       /\ colorTheme.startColor = NumColors - 1
       /\ calls = NumColors + 1
       /\ last = 0

\* C14: with a color theme active, createNestedBoxes queries the engine once per
\* layer and gives each layer the border color the engine returned for it,
\* whatever the border-color list holds; title color and title text still come
\* from their own lists.
C14_ThemeOverridesBorder ==
    (colorTheme # Nil /\ cli = Nil) =>
        /\ calls = Len(layers)
        /\ Len(layers) > 0 => layers[Len(layers)].engine = last
        /\ \A k \in 1 .. Len(layers) :
              LET idx == layers[k].index
              IN  /\ layers[k].call = k
                  /\ layers[k].boxColor = <<38, 5, layers[k].engine>>
                  /\ colorTheme.name = "rainbow" => layers[k].engine = idx
                  /\ layers[k].titleColor = ResolveColor(args.titleColors, idx)
                  /\ layers[k].boxTitle =
                         (IF idx < Len(args.boxTitles) THEN args.boxTitles[idx + 1] ELSE <<>>)

C14_Witness ==
    /\ pc = "done"
    /\ colorTheme # Nil
    /\ colorTheme.name = "pride"
    /\ args.depth = MaxDepth
    /\ Len(args.boxColors) = MaxDepth
    /\ Len(args.titleColors) = 1
    /\ Len(args.boxTitles) = 2
    /\ layers[2].boxColor = <<38, 5, 208>>
    /\ layers[2].boxColor # parseColor(args.boxColors[2])
    /\ layers[2].titleColor = parseColor(args.titleColors[1])

\* str without its leading and trailing spaces.
TrimSpaces(str) ==
    LET kept == {k \in 1 .. Len(str) : str[k] # Space}
    IN  IF kept = {} THEN <<>> ELSE SubSeq(str, Min(kept), Highest(kept))

\* The rows between the top and the bottom row, each trimmed.
Decode(rows) == [k \in 1 .. Len(rows) - 2 |-> TrimSpaces(rows[k + 1])]

\* C19: for depth 1, the plain glyph set, vpad 0, hpad 0 and no colors, and input
\* lines without leading or trailing spaces, dropping the top and bottom rows of
\* the output and trimming the spaces around each remaining row gives back the
\* input lines, in their order.
C19_RoundTrip ==
    (/\ pc = "done"
     /\ args.depth = 1
     /\ args.theme = "plain"
     /\ args.vpadding = 0
     /\ args.hpadding = 0
     /\ colorTheme = Nil
     /\ args.boxColors = <<>>
     /\ args.titleColors = <<>>
     /\ args.contentColor = Nil
     /\ \A k \in 1 .. Len(args.lines) : TrimSpaces(args.lines[k]) = args.lines[k]) =>
        Decode(lines) = args.lines

C19_Witness ==
    /\ pc = "done"
    /\ args.depth = 1
    /\ args.theme = "plain"
    /\ colorTheme = Nil
    /\ args.lines = << <<97, Space, 97>>, <<97>> >>
    /\ lines[2] = <<Space, 97, Space, 97, Space>>
    /\ lines[3] = <<Space, 97, Space, Space, Space>>
    /\ Decode(lines) = args.lines

\* C20: a color name that is the decimal literal of n in 0..255 is parsed into
\* the 256-color indexed foreground color n, the color getColorFromTheme builds
\* for the code n. (Violated: parseColor builds the single attribute 90 + n.)
C20_NumericIsIndexed ==
    (/\ pc = "done"
     /\ colorTheme = Nil
     /\ args.depth = 1
     /\ Len(args.boxColors) = 1
     /\ atoi(args.boxColors[1]).ok
     /\ atoi(args.boxColors[1]).num \in Palette256
     /\ args.boxColors[1] = decimal(atoi(args.boxColors[1]).num)) =>
        layers[1].boxColor = colorOfCode(atoi(args.boxColors[1]).num)

\* The themes whose palette is the same in both revisions of the engine.
SharedNames == {"gradient", "rainbow", "pride", "bi", "pan", "nb"}

\* C21: called with index k = 0, 1, 2, ... on one ColorTheme, the stateful engine
\* returns for gradient, rainbow, pride, bi, pan and nb the value the stateless
\* revision's getNextColor(theme, k) returns, which for a flag palette is
\* palette[k mod len(palette)]: after the palette is exhausted the cursor is
\* back at position 0.
C21_MatchesStateless ==
    [][(CallReturns /\ colorTheme.name \in SharedNames) =>
            /\ last' = getNextColorByIndex(colorTheme, calls)
            /\ colorTheme.name \in FlagNames =>
                    LET cand == candidateColors(colorTheme.name)
                    IN  last' = cand[(calls % Len(cand)) + 1]]_vars

C21_Witness ==
    /\ colorTheme.name = "pride"
    /\ calls = 7
    /\ last = 196
    /\ last = getNextColorByIndex(colorTheme, 6)
    /\ colorTheme.usedColors = {196}
    /\ colorTheme.colorIndex = 1

\* C22: for every flag palette, after k >= 1 calls of getNextColor on one
\* ColorTheme, usedColors is a subset of the palette with ((k-1) mod len) + 1
\* members and colorIndex is k mod len; so the search always finds an unused
\* entry and the fallback branch is never taken.
C22_FlagBookkeeping ==
    (colorTheme # Nil /\ colorTheme.name \in FlagNames /\ calls >= 1) =>
        LET cand == candidateColors(colorTheme.name)
            n    == Len(cand)
        IN  /\ colorTheme.usedColors \subseteq {cand[k] : k \in 1 .. n}
            /\ Cardinality(colorTheme.usedColors) = ((calls - 1) % n) + 1
            /\ colorTheme.colorIndex = calls % n
            /\ ~fellBack

C22_Witness ==
    /\ colorTheme.name = "trans"
    /\ calls = 4
    /\ colorTheme.usedColors = {51}
    /\ colorTheme.colorIndex = 1
    /\ last = 51
    /\ ~fellBack

(***************************************************************************)
(* Properties of the rows of one createBox call, checked under SpecBox.    *)
(***************************************************************************)
\* n copies of rune r.
Copies(r, n) == [k \in 1 .. n |-> r]

\* The stripped width of the widest content line, 0 when there is none.
ContentWidth ==
    IF args.lines = <<>> THEN 0
    ELSE CHOOSE w \in {width(args.lines[k]) : k \in 1 .. Len(args.lines)} :
             \A k \in 1 .. Len(args.lines) : w >= width(args.lines[k])

Glyphs == getTheme(args.theme)

NoColors == args.boxColor = Nil /\ args.titleColor = Nil /\ args.contentColor = Nil

TitleWider ==
    args.boxTitle # <<>> /\ width(args.boxTitle) > ContentWidth + 2 * args.hpadding

\* C15: when a non-empty title is wider (stripped) than the widest line plus
\* 2*hpad, innerWidth is the title width (the bottom row has that many WE
\* glyphs), the top row holds the title in full, and without colors the top
\* row is NW, the title, innerWidth - titleWidth = 0 WE glyphs, NE.
C15_TitleWidens ==
    (pc = "returned" /\ args.hpadding >= 0 /\ TitleWider) =>
        LET tw == width(args.boxTitle)
        IN  /\ BoxInnerWidth = tw
            /\ width(lines[Len(lines)]) = tw + 2
            /\ \E at \in 1 .. Len(lines[1]) :
                  SubSeq(lines[1], at, at + Len(args.boxTitle) - 1) = args.boxTitle
            /\ NoColors =>
                  lines[1] = <<Glyphs.NW>> \o args.boxTitle \o Copies(Glyphs.WE, BoxInnerWidth - tw)
                                 \o <<Glyphs.NE>>
            /\ Terminated(args.boxTitle) =>
                  stripAnsi(lines[1]) = <<Glyphs.NW>> \o stripAnsi(args.boxTitle) \o <<Glyphs.NE>>

C15_Witness ==
    /\ pc = "returned"
    /\ args.lines = <<<<120>>>>
    /\ args.hpadding = 0
    /\ lines[1] = <<43, 76, 111, 110, 103, 84, 105, 116, 108, 101, 43>>
    /\ lines[3] = <<43, 45, 45, 45, 45, 45, 45, 45, 45, 45, 43>>

\* C16: without colors and with vpad, hpad >= 0, createBox returns exactly: the
\* top row, vpad blank rows NS + innerWidth spaces + NS, one row per line in
\* input order, NS + hpad spaces + line + hpad spaces + (innerWidth - width(line)
\* - 2*hpad) spaces + NS, vpad blank rows, and the bottom row SW + innerWidth
\* WE + SE, where innerWidth is the larger of the widest line plus 2*hpad and
\* the title width; without lines the width is set by title and padding alone.
C16_RowLayout ==
    (pc = "returned" /\ NoColors /\ args.vpadding >= 0 /\ args.hpadding >= 0) =>
        LET n  == Len(args.lines)
            v  == args.vpadding
            h  == args.hpadding
            tw == width(args.boxTitle)
            w  == IF TitleWider THEN tw ELSE ContentWidth + 2 * h
            blank == <<Glyphs.NS>> \o Copies(Space, w) \o <<Glyphs.NS>>
        IN  /\ Len(lines) = 1 + v + n + v + 1
            /\ lines[1] = <<Glyphs.NW>> \o args.boxTitle \o Copies(Glyphs.WE, w - tw)
                               \o <<Glyphs.NE>>
            /\ \A k \in 1 .. v : lines[1 + k] = blank /\ lines[1 + v + n + k] = blank
            /\ \A k \in 1 .. n :
                  lines[1 + v + k] =
                      <<Glyphs.NS>> \o Copies(Space, h) \o args.lines[k] \o Copies(Space, h)
                          \o Copies(Space, w - width(args.lines[k]) - 2 * h) \o <<Glyphs.NS>>
            /\ lines[Len(lines)] = <<Glyphs.SW>> \o Copies(Glyphs.WE, w) \o <<Glyphs.SE>>
            /\ n = 0 => w = (IF tw > 2 * h THEN tw ELSE 2 * h)

C16_Witness ==
    /\ pc = "returned"
    /\ args.lines = <<<<104, 105>>>>
    /\ args.hpadding = 1
    /\ lines = << <<43, 45, 45, 45, 45, 43>>,
                  <<124, 32, 104, 105, 32, 124>>,
                  <<43, 45, 45, 45, 45, 43>> >>

\* C17: for all lines, every title, every glyph set and vpad, hpad >= 0,
\* createBox returns (it does not panic), and each repeat count it computes is
\* >= 0: the title fill innerWidth - titleWidth, the blank-row width innerWidth
\* and each content fill innerWidth - width(line) - 2*hpad.
C17_Total ==
    (pc # "call" /\ args.vpadding >= 0 /\ args.hpadding >= 0) =>
        /\ pc = "returned"
        /\ Len(lines) = Len(args.lines) + 2 * args.vpadding + 2
        /\ BoxInnerWidth >= 0
        /\ args.boxTitle # <<>> => BoxInnerWidth - width(args.boxTitle) >= 0
        /\ \A k \in 1 .. Len(args.lines) :
              BoxInnerWidth - width(args.lines[k]) - 2 * args.hpadding >= 0

C17_Witness ==
    /\ pc = "returned"
    /\ args.boxTitle = LongTitle
    /\ args.lines = <<<<ESC, 97, 97>>, <<97>>>>
    /\ args.hpadding = MaxPad
    /\ BoxInnerWidth - width(args.lines[1]) - 2 * args.hpadding = MaxRunes - 1

\* C18: whenever the redraw loop of the random theme is running, some index of
\* 0..215 is not in the tracking set, and under a fair random source the loop
\* ends; no iteration of createNestedBoxes is blocked on its color theme, the
\* loop variable never passes depth, and createNestedBoxes returns, whatever
\* the depth >= 0, the input and the color theme.
C18_Terminates ==
    /\ [](pc = "draw" => Cardinality(colorTheme.usedColors) < NumColors)
    /\ [](pc = "loop" =>
            /\ i <= args.depth
            /\ (loopCond(i, args.depth) /\ colorTheme # Nil) =>
                    themeOutcomes(colorTheme, i) # {})
    /\ (pc = "draw") ~> (pc = "idle")
    /\ (pc = "loop") ~> (pc = "done")

C18_Witness ==
    /\ pc = "draw"
    /\ calls = NumColors - 1
    /\ Cardinality(colorTheme.usedColors) = NumColors - 1

(***************************************************************************)
(* Properties of the command line pipeline, checked under SpecCli.         *)
(***************************************************************************)
\* The number of comma-separated values a list flag supplies (0: flag absent).
FieldCount(flag) ==
    IF flag = <<>> THEN 0
    ELSE 1 + Cardinality({k \in 1 .. Len(flag) : flag[k] = Comma})

WrongLength(flag) == FieldCount(flag) \notin {0, 1, cli.number}

AnyWrongLength ==
    WrongLength(cli.title) \/ WrongLength(cli.boxColor) \/ WrongLength(cli.titleColor)

\* Nothing to read: stdin is not piped and no argument is non-empty.
NoInputPath == cli.stat # "pipe" /\ \A k \in 1 .. Len(cli.argv) : cli.argv[k] = <<>>

ReadFailPath == cli.stat = "pipe" /\ cli.scanErr

\* C13: in a run of the command line pipeline, a titles, border-colors or
\* title-colors list supplied with a length that is neither 1 nor depth ends
\* the run with a configuration error; the no-input and read-failure paths end
\* it with their error; whenever the run has met an error, createNestedBoxes
\* was never invoked and nothing was written to standard output; absent lists
\* and lists of length 1 or depth raise no error.
C13_CliValidation ==
    /\ (NoInputPath /\ pc # "resolve") => (err = ErrNoInput /\ pc = "exit")
    /\ (ReadFailPath /\ pc # "resolve") => (err = ErrRead /\ pc = "exit")
    /\ (AnyWrongLength /\ ~NoInputPath /\ ~ReadFailPath /\ pc \notin {"resolve", "validate"}) =>
            (err = ErrConfig /\ pc = "exit")
    /\ err # NoError => (stdout = <<>> /\ layers = <<>> /\ args = Nil /\ calls = 0)
    /\ (~AnyWrongLength /\ ~NoInputPath /\ ~ReadFailPath) => err = NoError
    /\ stdout # <<>> => (pc = "exit" /\ err = NoError /\ ~AnyWrongLength)

C13_Witness ==
    /\ pc = "exit"
    /\ err = ErrConfig
    /\ cli.number = 3
    /\ FieldCount(cli.title) = 1
    /\ FieldCount(cli.boxColor) = 2
    /\ FieldCount(cli.titleColor) = 3
    /\ cli.stat = "pipe"
    /\ stdout = <<>>

====
